---- MODULE Spec2Model ----
(***************************************************************************)
(* A model of the 6502 CPU core of src/src/cpu.rs: the CPU struct (three   *)
(* 8-bit registers, a 16-bit program counter, a byte array), its memory    *)
(* accessors, load / reset / run / load_and_run, and the three             *)
(* instructions LDA #imm, TAX and INX with their flag helpers.             *)
(*                                                                         *)
(* A byte array (the memory, a program image) is written as its run-length *)
(* encoding: a sequence of runs [n |-> count, b |-> byte] in which         *)
(* neighbouring runs hold different bytes and every count is positive.     *)
(* Two arrays are equal exactly when their encodings are equal, and every  *)
(* array operation of the source (indexing, storing one element,           *)
(* copy_from_slice into a range) is defined on the encoding below.  A Rust *)
(* panic (index out of bounds, todo!()) ends the call that raised it: the  *)
(* model records it in `state` and `panic` and the CPU takes no more steps.*)
(***************************************************************************)
EXTENDS Integers, Sequences, FiniteSets, TLC

VARIABLES
    register_a,       \* CPU.register_a: u8
    register_x,       \* CPU.register_x: u8
    status,           \* CPU.status: u8
    program_counter,  \* CPU.program_counter: u16
    memory,           \* CPU.memory: [u8; 0xFFFF], run-length encoded
    state,            \* where the caller is: "Idle", "Running" (inside run's loop), "Halted", "Panicked"
    panic,            \* the panic message of a call that panicked, "" otherwise
    last,             \* the last call or loop pass: op, addr, data, ret and the image last loaded;
                      \* for a loop pass addr is the opcode's address, data the opcode and
                      \* ret the bytes run() had fetched before it
    pre,              \* the CPU's fields as they were before `last`
    fetched,          \* bytes fetched by the current run() so far
    trail,            \* calls made since the last load: "", "load", "load,reset", "load,reset,run"
    ops               \* calls made on this CPU so far

vars == <<register_a, register_x, status, program_counter, memory,
          state, panic, last, pre, fetched, trail, ops>>

(***************************************************************************)
(* Program constants.                                                      *)
(***************************************************************************)
MemLen == 65535         \* memory: [u8; 0xFFFF]
ProgramOrigin == 32768  \* 0x8000, where load copies the program
ResetVector == 65532    \* 0xFFFC, where load writes and reset reads the origin
U8 == 256               \* number of u8 values
U16 == 65536            \* number of u16 values
OpLDA == 169            \* 0xA9
OpTAX == 170            \* 0xAA
OpINX == 232            \* 0xE8
OpBRK == 0              \* 0x00
NegativeBit == 128      \* 0b1000_0000
ZeroBit == 2            \* 0b0000_0010

Byte == 0 .. (U8 - 1)

IndexPanic == "index out of bounds"
SlicePanic == "range end index out of range for slice"
TodoPanic == "not yet implemented"

(***************************************************************************)
(* Bitwise & and | on values of up to 16 bits.                             *)
(***************************************************************************)
RECURSIVE BitAnd(_, _)
BitAnd(a, b) ==
    IF a = 0 \/ b = 0 THEN 0
    ELSE (a % 2) * (b % 2) + 2 * BitAnd(a \div 2, b \div 2)

RECURSIVE BitOr(_, _)
BitOr(a, b) ==
    IF a = 0 THEN b
    ELSE IF b = 0 THEN a
    ELSE (IF (a % 2) + (b % 2) > 0 THEN 1 ELSE 0) + 2 * BitOr(a \div 2, b \div 2)

(***************************************************************************)
(* Byte arrays, run-length encoded.                                        *)
(***************************************************************************)
Fill(n, b) == IF n = 0 THEN << >> ELSE << [n |-> n, b |-> b] >>

RECURSIVE ArrLen(_)
ArrLen(r) == IF r = << >> THEN 0 ELSE Head(r).n + ArrLen(Tail(r))

\* r[i], for 0 <= i < ArrLen(r)
RECURSIVE ArrAt(_, _)
ArrAt(r, i) == IF i < Head(r).n THEN Head(r).b ELSE ArrAt(Tail(r), i - Head(r).n)

\* r[..k]
RECURSIVE ArrTake(_, _)
ArrTake(r, k) ==
    IF k = 0 \/ r = << >> THEN << >>
    ELSE IF Head(r).n <= k THEN << Head(r) >> \o ArrTake(Tail(r), k - Head(r).n)
    ELSE Fill(k, Head(r).b)

\* r[k..]
RECURSIVE ArrDrop(_, _)
ArrDrop(r, k) ==
    IF k = 0 \/ r = << >> THEN r
    ELSE IF Head(r).n <= k THEN ArrDrop(Tail(r), k - Head(r).n)
    ELSE Fill(Head(r).n - k, Head(r).b) \o Tail(r)

\* r followed by s
ArrCat(r, s) ==
    IF r = << >> THEN s
    ELSE IF s = << >> THEN r
    ELSE IF r[Len(r)].b = Head(s).b
         THEN SubSeq(r, 1, Len(r) - 1) \o Fill(r[Len(r)].n + Head(s).n, Head(s).b) \o Tail(s)
         ELSE r \o s

\* the array with the elements of the sequence q
RECURSIVE ArrOf(_)
ArrOf(q) == IF q = << >> THEN << >> ELSE ArrCat(Fill(1, Head(q)), ArrOf(Tail(q)))

\* r with r[i] = b, for 0 <= i < ArrLen(r)
ArrSet(r, i, b) == ArrCat(ArrCat(ArrTake(r, i), Fill(1, b)), ArrDrop(r, i + 1))

\* r with r[from .. from + ArrLen(s)] = s (copy_from_slice), for from + ArrLen(s) <= ArrLen(r)
ArrCopy(r, from, s) ==
    ArrCat(ArrCat(ArrTake(r, from), s), ArrDrop(r, from + ArrLen(s)))

ZeroMemory == Fill(MemLen, 0)

(***************************************************************************)
(* The CPU as a value: the fields of the struct.                           *)
(***************************************************************************)
Self ==
    [register_a |-> register_a, register_x |-> register_x, status |-> status,
     program_counter |-> program_counter, memory |-> memory]

\* CPU::new() and CPU::default()
new ==
    [register_a |-> 0, register_x |-> 0, status |-> 0,
     program_counter |-> 0, memory |-> ZeroMemory]

(***************************************************************************)
(* Memory accessors.  Each returns [cpu, panic] and, for a read, ret: on a *)
(* panic, cpu holds what had been written before it.                       *)
(***************************************************************************)
mem_read(self, addr) ==
    IF addr < ArrLen(self.memory)
    THEN [panic |-> "", ret |-> ArrAt(self.memory, addr)]
    ELSE [panic |-> IndexPanic, ret |-> 0]

mem_write(self, addr, data) ==
    IF addr < ArrLen(self.memory)
    THEN [panic |-> "", cpu |-> [self EXCEPT !.memory = ArrSet(@, addr, data)]]
    ELSE [panic |-> IndexPanic, cpu |-> self]

\* pos + 1 cannot overflow where it is evaluated: mem_read(pos) has panicked
\* for pos = 0xFFFF before it.
mem_read_u16(self, pos) ==
    LET lo == mem_read(self, pos) IN
    IF lo.panic # "" THEN [panic |-> lo.panic, ret |-> 0]
    ELSE LET hi == mem_read(self, pos + 1) IN
         IF hi.panic # "" THEN [panic |-> hi.panic, ret |-> 0]
         ELSE [panic |-> "", ret |-> BitOr((hi.ret * U8) % U16, lo.ret)]

\* Mutant: the high byte is stored first (big-endian).
mem_write_u16_big_endian(self, pos, data) ==
    LET hi == (data \div U8) % U8
        lo == BitAnd(data, 255) % U8
        w1 == mem_write(self, pos, hi)
    IN  IF w1.panic # "" THEN w1
        ELSE mem_write(w1.cpu, pos + 1, lo)

mem_write_u16(self, pos, data) ==
    LET hi == (data \div U8) % U8
        lo == BitAnd(data, 255) % U8
        w1 == mem_write(self, pos, lo)
    IN  IF w1.panic # "" THEN w1
        ELSE mem_write(w1.cpu, pos + 1, hi)

(***************************************************************************)
(* The flag helpers and the three instructions.                            *)
(***************************************************************************)
\* Mutant: the Zero flag is set by overwriting the whole status byte.
update_zero_flag_overwrite(self, register) ==
    IF register = 0
    THEN [self EXCEPT !.status = ZeroBit]
    ELSE [self EXCEPT !.status = 0]

update_zero_flag(self, register) ==
    IF register = 0
    THEN [self EXCEPT !.status = BitOr(@, ZeroBit)]
    ELSE [self EXCEPT !.status = BitAnd(@, 253)]

\* Mutant: the Negative flag is cleared with the mask 0b0111_1101, which
\* clears the Zero flag with it.
update_negative_flag_clears_zero(self, register) ==
    IF BitAnd(register, NegativeBit) = 0
    THEN [self EXCEPT !.status = BitAnd(@, 125)]
    ELSE [self EXCEPT !.status = BitOr(@, NegativeBit)]

update_negative_flag(self, register) ==
    IF BitAnd(register, NegativeBit) = 0
    THEN [self EXCEPT !.status = BitAnd(@, 127)]
    ELSE [self EXCEPT !.status = BitOr(@, NegativeBit)]

update_zero_and_negative_flags(self, register) ==
    update_negative_flag(update_zero_flag(self, register), register)

lda(self, value) ==
    LET s1 == [self EXCEPT !.register_a = value]
    IN  update_zero_and_negative_flags(s1, s1.register_a)

\* Mutant: the flags are updated from register_x before the transfer.
tax_flags_first(self) ==
    LET s1 == update_zero_and_negative_flags(self, self.register_x)
    IN  [s1 EXCEPT !.register_x = self.register_a]

tax(self) ==
    LET s1 == [self EXCEPT !.register_x = self.register_a]
    IN  update_zero_and_negative_flags(s1, s1.register_x)

\* Mutant: the increment saturates at 0xFF instead of wrapping.
inx_saturating(self) ==
    LET s1 == [self EXCEPT !.register_x = IF @ = U8 - 1 THEN @ ELSE @ + 1]
    IN  update_zero_and_negative_flags(s1, s1.register_x)

\* Mutant: the flags are updated from register_x before the increment.
inx_flags_first(self) ==
    LET s1 == update_zero_and_negative_flags(self, self.register_x)
    IN  [s1 EXCEPT !.register_x = (@ + 1) % U8]

\* Mutant: INX increments the memory byte at address register_x, as INC
\* would, and sets the flags from it.
inx_increments_memory(self) ==
    LET s1 == [self EXCEPT !.memory =
                  ArrSet(@, self.register_x, (ArrAt(@, self.register_x) + 1) % U8)]
    IN  update_zero_and_negative_flags(s1, ArrAt(s1.memory, self.register_x))

inx(self) ==
    LET s1 == [self EXCEPT !.register_x = (@ + 1) % U8]
    IN  update_zero_and_negative_flags(s1, s1.register_x)

(***************************************************************************)
(* reset, load and one pass of run's loop.  Each returns [cpu, panic];     *)
(* run_loop also returns ctl ("loop", "return" or "panic"), the opcode it  *)
(* fetched and the number of bytes it fetched.                             *)
(***************************************************************************)
\* Mutant: program_counter is set to the load origin instead of the word
\* stored at the reset vector.
reset_to_origin(self) ==
    LET s1 == [self EXCEPT !.register_a = 0, !.register_x = 0, !.status = 0]
    IN  [panic |-> "", cpu |-> [s1 EXCEPT !.program_counter = ProgramOrigin]]

\* Mutant: reset leaves status as it was.
reset_keeps_status(self) ==
    LET s1 == [self EXCEPT !.register_a = 0, !.register_x = 0]
        v  == mem_read_u16(s1, ResetVector)
    IN  IF v.panic # "" THEN [panic |-> v.panic, cpu |-> s1]
        ELSE [panic |-> "", cpu |-> [s1 EXCEPT !.program_counter = v.ret]]

reset(self) ==
    LET s1 == [self EXCEPT !.register_a = 0, !.register_x = 0, !.status = 0]
        v  == mem_read_u16(s1, ResetVector)
    IN  IF v.panic # "" THEN [panic |-> v.panic, cpu |-> s1]
        ELSE [panic |-> "", cpu |-> [s1 EXCEPT !.program_counter = v.ret]]

\* Mutant: the bytes are stored one by one, and the store past the end of
\* the array panics after the bytes before it were stored.
load_bytewise(self, program) ==
    IF ProgramOrigin + ArrLen(program) > ArrLen(self.memory)
    THEN [panic |-> IndexPanic,
          cpu |-> [self EXCEPT !.memory =
                      ArrCopy(@, ProgramOrigin, ArrTake(program, ArrLen(@) - ProgramOrigin))]]
    ELSE mem_write_u16([self EXCEPT !.memory = ArrCopy(@, ProgramOrigin, program)],
                       ResetVector, ProgramOrigin)

\* Mutant: the reset vector is written before the image is copied, so an
\* image that reaches 0xFFFC replaces it.
load_vector_first(self, program) ==
    LET w == mem_write_u16(self, ResetVector, ProgramOrigin)
    IN  IF ProgramOrigin + ArrLen(program) > ArrLen(self.memory)
        THEN [panic |-> SlicePanic, cpu |-> w.cpu]
        ELSE [panic |-> "", cpu |-> [w.cpu EXCEPT !.memory = ArrCopy(@, ProgramOrigin, program)]]

\* The range 0x8000 .. 0x8000 + len is checked against the array before
\* copy_from_slice writes anything.
load(self, program) ==
    IF ProgramOrigin + ArrLen(program) > ArrLen(self.memory)
    THEN [panic |-> SlicePanic, cpu |-> self]
    ELSE mem_write_u16([self EXCEPT !.memory = ArrCopy(@, ProgramOrigin, program)],
                       ResetVector, ProgramOrigin)

\* Mutant: an opcode outside the table is skipped as a no-op.
run_loop_skips_unknown(self) ==
    LET f  == mem_read(self, self.program_counter)
        s1 == [self EXCEPT !.program_counter = @ + 1]
    IN  IF f.panic # ""
        THEN [panic |-> f.panic, cpu |-> self, ctl |-> "panic", opcode |-> 0, bytes |-> 0]
        ELSE CASE f.ret = OpLDA ->
                  LET p  == mem_read(s1, s1.program_counter)
                      s2 == [s1 EXCEPT !.program_counter = @ + 1]
                  IN  IF p.panic # ""
                      THEN [panic |-> p.panic, cpu |-> s1, ctl |-> "panic",
                            opcode |-> f.ret, bytes |-> 1]
                      ELSE [panic |-> "", cpu |-> lda(s2, p.ret), ctl |-> "loop",
                            opcode |-> f.ret, bytes |-> 2]
               [] f.ret = OpTAX ->
                  [panic |-> "", cpu |-> tax(s1), ctl |-> "loop", opcode |-> f.ret, bytes |-> 1]
               [] f.ret = OpINX ->
                  [panic |-> "", cpu |-> inx(s1), ctl |-> "loop", opcode |-> f.ret, bytes |-> 1]
               [] f.ret = OpBRK ->
                  [panic |-> "", cpu |-> s1, ctl |-> "return", opcode |-> f.ret, bytes |-> 1]
               [] OTHER ->
                  [panic |-> "", cpu |-> s1, ctl |-> "loop", opcode |-> f.ret, bytes |-> 1]

\* Mutant: Break takes a padding byte after its opcode, as on the 6502.
run_loop_brk_has_operand(self) ==
    LET f  == mem_read(self, self.program_counter)
        s1 == [self EXCEPT !.program_counter = @ + 1]
    IN  IF f.panic # ""
        THEN [panic |-> f.panic, cpu |-> self, ctl |-> "panic", opcode |-> 0, bytes |-> 0]
        ELSE CASE f.ret = OpLDA ->
                  LET p  == mem_read(s1, s1.program_counter)
                      s2 == [s1 EXCEPT !.program_counter = @ + 1]
                  IN  IF p.panic # ""
                      THEN [panic |-> p.panic, cpu |-> s1, ctl |-> "panic",
                            opcode |-> f.ret, bytes |-> 1]
                      ELSE [panic |-> "", cpu |-> lda(s2, p.ret), ctl |-> "loop",
                            opcode |-> f.ret, bytes |-> 2]
               [] f.ret = OpTAX ->
                  [panic |-> "", cpu |-> tax(s1), ctl |-> "loop", opcode |-> f.ret, bytes |-> 1]
               [] f.ret = OpINX ->
                  [panic |-> "", cpu |-> inx(s1), ctl |-> "loop", opcode |-> f.ret, bytes |-> 1]
               [] f.ret = OpBRK ->
                  [panic |-> "", cpu |-> [s1 EXCEPT !.program_counter = @ + 1],
                   ctl |-> "return", opcode |-> f.ret, bytes |-> 2]
               [] OTHER ->
                  [panic |-> TodoPanic, cpu |-> s1, ctl |-> "panic", opcode |-> f.ret, bytes |-> 1]

\* Mutant: the operand of LDA is read without advancing program_counter
\* past it, so the operand is fetched again as the next opcode.
run_loop_lda_keeps_pc(self) ==
    LET f  == mem_read(self, self.program_counter)
        s1 == [self EXCEPT !.program_counter = @ + 1]
    IN  IF f.panic # ""
        THEN [panic |-> f.panic, cpu |-> self, ctl |-> "panic", opcode |-> 0, bytes |-> 0]
        ELSE CASE f.ret = OpLDA ->
                  LET p  == mem_read(s1, s1.program_counter)
                  IN  IF p.panic # ""
                      THEN [panic |-> p.panic, cpu |-> s1, ctl |-> "panic",
                            opcode |-> f.ret, bytes |-> 1]
                      ELSE [panic |-> "", cpu |-> lda(s1, p.ret), ctl |-> "loop",
                            opcode |-> f.ret, bytes |-> 2]
               [] f.ret = OpTAX ->
                  [panic |-> "", cpu |-> tax(s1), ctl |-> "loop", opcode |-> f.ret, bytes |-> 1]
               [] f.ret = OpINX ->
                  [panic |-> "", cpu |-> inx(s1), ctl |-> "loop", opcode |-> f.ret, bytes |-> 1]
               [] f.ret = OpBRK ->
                  [panic |-> "", cpu |-> s1, ctl |-> "return", opcode |-> f.ret, bytes |-> 1]
               [] OTHER ->
                  [panic |-> TodoPanic, cpu |-> s1, ctl |-> "panic", opcode |-> f.ret, bytes |-> 1]

\* Mutant: program_counter is advanced inside the arms of the match, and
\* the arm of TAX does not advance it.
run_loop_tax_keeps_pc(self) ==
    LET f  == mem_read(self, self.program_counter)
        s1 == [self EXCEPT !.program_counter = @ + 1]
    IN  IF f.panic # ""
        THEN [panic |-> f.panic, cpu |-> self, ctl |-> "panic", opcode |-> 0, bytes |-> 0]
        ELSE CASE f.ret = OpLDA ->
                  LET p  == mem_read(s1, s1.program_counter)
                      s2 == [s1 EXCEPT !.program_counter = @ + 1]
                  IN  IF p.panic # ""
                      THEN [panic |-> p.panic, cpu |-> s1, ctl |-> "panic",
                            opcode |-> f.ret, bytes |-> 1]
                      ELSE [panic |-> "", cpu |-> lda(s2, p.ret), ctl |-> "loop",
                            opcode |-> f.ret, bytes |-> 2]
               [] f.ret = OpTAX ->
                  [panic |-> "", cpu |-> tax(self), ctl |-> "loop", opcode |-> f.ret, bytes |-> 1]
               [] f.ret = OpINX ->
                  [panic |-> "", cpu |-> inx(s1), ctl |-> "loop", opcode |-> f.ret, bytes |-> 1]
               [] f.ret = OpBRK ->
                  [panic |-> "", cpu |-> s1, ctl |-> "return", opcode |-> f.ret, bytes |-> 1]
               [] OTHER ->
                  [panic |-> TodoPanic, cpu |-> s1, ctl |-> "panic", opcode |-> f.ret, bytes |-> 1]

\* program_counter += 1 cannot overflow where it is evaluated: the mem_read
\* before it has panicked for program_counter = 0xFFFF.
run_loop(self) ==
    LET f  == mem_read(self, self.program_counter)
        s1 == [self EXCEPT !.program_counter = @ + 1]
    IN  IF f.panic # ""
        THEN [panic |-> f.panic, cpu |-> self, ctl |-> "panic", opcode |-> 0, bytes |-> 0]
        ELSE CASE f.ret = OpLDA ->
                  LET p  == mem_read(s1, s1.program_counter)
                      s2 == [s1 EXCEPT !.program_counter = @ + 1]
                  IN  IF p.panic # ""
                      THEN [panic |-> p.panic, cpu |-> s1, ctl |-> "panic",
                            opcode |-> f.ret, bytes |-> 1]
                      ELSE [panic |-> "", cpu |-> lda(s2, p.ret), ctl |-> "loop",
                            opcode |-> f.ret, bytes |-> 2]
               [] f.ret = OpTAX ->
                  [panic |-> "", cpu |-> tax(s1), ctl |-> "loop", opcode |-> f.ret, bytes |-> 1]
               [] f.ret = OpINX ->
                  [panic |-> "", cpu |-> inx(s1), ctl |-> "loop", opcode |-> f.ret, bytes |-> 1]
               [] f.ret = OpBRK ->
                  [panic |-> "", cpu |-> s1, ctl |-> "return", opcode |-> f.ret, bytes |-> 1]
               [] OTHER ->
                  [panic |-> TodoPanic, cpu |-> s1, ctl |-> "panic", opcode |-> f.ret, bytes |-> 1]

\* run() as a whole, for runs of at most `passes` + 1 passes of the loop:
\* the result of the pass that leaves the loop.
RECURSIVE run(_, _)
run(self, passes) ==
    LET r == run_loop(self)
    IN  IF r.ctl = "loop" /\ passes > 0 THEN run(r.cpu, passes - 1) ELSE r

\* load_and_run() as a whole, for images whose run ends within the image
\* or at the byte after it.
load_and_run(self, program) ==
    LET l == load(self, program)
    IN  IF l.panic # "" THEN [panic |-> l.panic, cpu |-> l.cpu, ctl |-> "panic"]
        ELSE LET r == run(reset(l.cpu).cpu, ArrLen(program))
             IN  [panic |-> r.panic, cpu |-> r.cpu, ctl |-> r.ctl]

(***************************************************************************)
(* Bounds of the model and the inputs drawn from them.                     *)
(***************************************************************************)
MaxOps == 3       \* calls a caller makes on one CPU (loop iterations of run are not counted)
MaxInx == 3       \* INX instructions in a short end-to-end program

\* Images whose end lies around the reset vector and around the end of the
\* array: 0x8000 + len is 0xFFFC, 0xFFFD, 0xFFFF, 0x10000 and 0x10001.
EdgeLens == {MemLen - ProgramOrigin - 3, MemLen - ProgramOrigin - 2,
             MemLen - ProgramOrigin, U16 - ProgramOrigin, U16 - ProgramOrigin + 1}

Images ==
    {ArrOf(q) : q \in {<< >>, <<OpLDA, 5, OpBRK>>, <<OpLDA, 255, OpTAX, OpINX, OpINX, OpBRK>>,
                       <<OpINX, OpTAX, 1>>, <<OpTAX, OpLDA>>}}
    \cup {Fill(n, b) : n \in EdgeLens, b \in {0, 1}}

\* Values a caller assigns to register_a, register_x and status, and to program_counter.
PokeRegs == {<<1, 130, 77>>, <<130, 1, 255>>}
PokePCs == {ProgramOrigin + 1, MemLen - 1, MemLen}

Called(op, addr, data, ret, image) ==
    [op |-> op, addr |-> addr, data |-> data, ret |-> ret, image |-> image]

\* The CPU's fields become those of `cpu`; the rest of the step is recorded.
Becomes(cpu) ==
    /\ register_a' = cpu.register_a
    /\ register_x' = cpu.register_x
    /\ status' = cpu.status
    /\ program_counter' = cpu.program_counter
    /\ memory' = cpu.memory
    /\ pre' = Self

CanCall == state \in {"Idle", "Halted"} /\ ops < MaxOps

(***************************************************************************)
(* The calls a caller can make on one CPU, and the loop of run.            *)
(***************************************************************************)
Init ==
    /\ register_a = new.register_a
    /\ register_x = new.register_x
    /\ status = new.status
    /\ program_counter = new.program_counter
    /\ memory = new.memory
    /\ state = "Idle"
    /\ panic = ""
    /\ last = Called("new", 0, 0, 0, << >>)
    /\ pre = new
    /\ fetched = 0
    /\ trail = ""
    /\ ops = 0

Load(program) ==
    /\ CanCall
    /\ LET r == load(Self, program) IN
        /\ Becomes(r.cpu)
        /\ panic' = r.panic
        /\ state' = IF r.panic # "" THEN "Panicked" ELSE "Idle"
        /\ trail' = IF r.panic # "" THEN "" ELSE "load"
    /\ last' = Called("load", 0, 0, 0, program)
    /\ ops' = ops + 1
    /\ UNCHANGED fetched

Reset ==
    /\ CanCall
    /\ LET r == reset(Self) IN
        /\ Becomes(r.cpu)
        /\ panic' = r.panic
        /\ state' = IF r.panic # "" THEN "Panicked" ELSE "Idle"
    /\ trail' = IF trail = "load" THEN "load,reset" ELSE ""
    /\ last' = Called("reset", 0, 0, 0, last.image)
    /\ ops' = ops + 1
    /\ UNCHANGED fetched

\* run() is entered: the next steps are the passes of its loop.
Run ==
    /\ CanCall
    /\ Becomes(Self)
    /\ state' = "Running"
    /\ panic' = ""
    /\ fetched' = 0
    /\ trail' = IF trail = "load,reset" THEN "load,reset,run" ELSE ""
    /\ last' = Called("run", 0, 0, 0, last.image)
    /\ ops' = ops + 1

\* One pass of run's loop: fetch, advance, decode, execute.
Step ==
    /\ state = "Running"
    /\ LET r == run_loop(Self) IN
        /\ Becomes(r.cpu)
        /\ panic' = r.panic
        /\ state' = CASE r.ctl = "loop" -> "Running"
                       [] r.ctl = "return" -> "Halted"
                       [] OTHER -> "Panicked"
        /\ fetched' = fetched + r.bytes
        /\ last' = Called("step", program_counter, r.opcode, fetched, last.image)
    /\ UNCHANGED <<trail, ops>>

\* load_and_run: load, reset, and run() is entered.
LoadAndRun(program) ==
    /\ CanCall
    /\ LET l == load(Self, program)
            r == reset(l.cpu)
        IN  IF l.panic # ""
            THEN /\ Becomes(l.cpu)
                 /\ panic' = l.panic
                 /\ state' = "Panicked"
                 /\ trail' = ""
            ELSE /\ Becomes(r.cpu)
                 /\ panic' = r.panic
                 /\ state' = IF r.panic # "" THEN "Panicked" ELSE "Running"
                 /\ trail' = "load,reset,run"
    /\ fetched' = 0
    /\ last' = Called("load_and_run", 0, 0, 0, program)
    /\ ops' = ops + 1

\* The caller assigns the public fields.
SetRegisters(a, x, s, pc) ==
    /\ CanCall
    /\ Becomes([Self EXCEPT !.register_a = a, !.register_x = x, !.status = s,
                            !.program_counter = pc])
    /\ last' = Called("set", 0, 0, 0, last.image)
    /\ trail' = ""
    /\ ops' = ops + 1
    /\ UNCHANGED <<state, panic, fetched>>

Next ==
    \/ \E program \in Images : Load(program)
    \/ Reset
    \/ Run
    \/ Step
    \/ \E program \in Images : LoadAndRun(program)
    \/ \E r \in PokeRegs, pc \in PokePCs : SetRegisters(r[1], r[2], r[3], pc)

Spec == Init /\ [][Next]_vars

(***************************************************************************)
(* Single instructions: a caller loads a short program, resets, assigns    *)
(* the public registers and enters run().                                  *)
(***************************************************************************)
Supported == {OpLDA, OpTAX, OpINX, OpBRK}

\* register_a and register_x where an instruction does not read them
Poked == [a |-> 85, x |-> 51]
SomeStatus == {0, 125, 130, 255}

Execute(program, a, x, s) ==
    /\ LET l == load(Self, program)
            r == reset(l.cpu)
        IN  Becomes([r.cpu EXCEPT !.register_a = a, !.register_x = x, !.status = s])
    /\ state' = "Running"
    /\ panic' = ""
    /\ fetched' = 0
    /\ trail' = ""
    /\ last' = Called("execute", 0, 0, 0, program)
    /\ ops' = ops + 1

NextLda ==
    \/ ops = 0 /\ \E v \in Byte, s \in Byte :
                     Execute(ArrOf(<<OpLDA, v, OpBRK>>), Poked.a, Poked.x, s)
    \/ Step

NextTax ==
    \/ ops = 0 /\ \E a \in Byte, s \in Byte :
                     Execute(ArrOf(<<OpTAX, OpTAX, OpBRK>>), a, Poked.x, s)
    \/ Step

NextInx ==
    \/ ops = 0 /\ \E x \in Byte, s \in SomeStatus :
                     Execute(ArrOf(<<OpINX, OpBRK>>), Poked.a, x, s)
    \/ Step

NextUnknown ==
    \/ ops = 0 /\ \E op \in Byte \ Supported, s \in SomeStatus :
                     Execute(ArrOf(<<op, OpINX, OpBRK>>), Poked.a, Poked.x, s)
    \/ Step

SpecLda == Init /\ [][NextLda]_vars
SpecTax == Init /\ [][NextTax]_vars
SpecInx == Init /\ [][NextInx]_vars
SpecUnknown == Init /\ [][NextUnknown]_vars

(***************************************************************************)
(* End to end: load_and_run of LDA #v, TAX, n times INX, BRK on a new CPU. *)
(***************************************************************************)
Program(v, n) ==
    ArrCat(ArrOf(<<OpLDA, v, OpTAX>>), ArrCat(Fill(n, OpINX), Fill(1, OpBRK)))

\* The longest program whose BRK lies at or below the reset vector has
\* LastWholeCount INX; the two counts after it put program bytes on the
\* vector, and load accepts all three programs.
LastWholeCount == ResetVector - ProgramOrigin - 3
LongCounts == {LastWholeCount, LastWholeCount + 1, LastWholeCount + 2}
LongValues == {255}

NextE2E ==
    \/ ops = 0 /\ \E v \in Byte, n \in 0 .. MaxInx : LoadAndRun(Program(v, n))
    \/ ops = 0 /\ \E v \in LongValues, n \in LongCounts : LoadAndRun(Program(v, n))
    \/ Step

SpecE2E == Init /\ [][NextE2E]_vars

(***************************************************************************)
(* The memory accessors called one after another on a new CPU.             *)
(***************************************************************************)
MaxMemOps == 2

Addrs == {0, 1, ProgramOrigin, ResetVector, ResetVector + 1, MemLen - 1, MemLen}
Words == {0, 1, 255, 256, 32768, 43981, 65535}
SomeBytes == {0, 1, 127, 128, 255}

CanCallMem == state = "Idle" /\ ops < MaxMemOps

MemWrite(addr, data) ==
    /\ CanCallMem
    /\ LET r == mem_write(Self, addr, data) IN
        /\ Becomes(r.cpu)
        /\ panic' = r.panic
        /\ state' = IF r.panic # "" THEN "Panicked" ELSE "Idle"
    /\ last' = Called("mem_write", addr, data, 0, last.image)
    /\ ops' = ops + 1
    /\ UNCHANGED <<fetched, trail>>

MemRead(addr) ==
    /\ CanCallMem
    /\ LET r == mem_read(Self, addr) IN
        /\ Becomes(Self)
        /\ panic' = r.panic
        /\ state' = IF r.panic # "" THEN "Panicked" ELSE "Idle"
        /\ last' = Called("mem_read", addr, 0, r.ret, last.image)
    /\ ops' = ops + 1
    /\ UNCHANGED <<fetched, trail>>

MemWriteU16(pos, data) ==
    /\ CanCallMem
    /\ LET r == mem_write_u16(Self, pos, data) IN
        /\ Becomes(r.cpu)
        /\ panic' = r.panic
        /\ state' = IF r.panic # "" THEN "Panicked" ELSE "Idle"
    /\ last' = Called("mem_write_u16", pos, data, 0, last.image)
    /\ ops' = ops + 1
    /\ UNCHANGED <<fetched, trail>>

MemReadU16(pos) ==
    /\ CanCallMem
    /\ LET r == mem_read_u16(Self, pos) IN
        /\ Becomes(Self)
        /\ panic' = r.panic
        /\ state' = IF r.panic # "" THEN "Panicked" ELSE "Idle"
        /\ last' = Called("mem_read_u16", pos, 0, r.ret, last.image)
    /\ ops' = ops + 1
    /\ UNCHANGED <<fetched, trail>>

NextMem ==
    \/ \E addr \in Addrs, data \in SomeBytes : MemWrite(addr, data)
    \/ \E addr \in Addrs : MemRead(addr)
    \/ \E pos \in Addrs, data \in Words : MemWriteU16(pos, data)
    \/ \E pos \in Addrs : MemReadU16(pos)

SpecMem == Init /\ [][NextMem]_vars

(***************************************************************************)
(* reset() after the caller has written the reset vector and assigned the  *)
(* registers.                                                              *)
(***************************************************************************)
VectorBytes == {ResetVector, ResetVector + 1}

NextReset ==
    \/ \E addr \in VectorBytes, data \in SomeBytes : MemWrite(addr, data)
    \/ \E data \in Words : MemWriteU16(ResetVector, data)
    \/ \E r \in PokeRegs, pc \in PokePCs : SetRegisters(r[1], r[2], r[3], pc)
    \/ \E program \in Images : Load(program)
    \/ Reset

SpecReset == Init /\ [][NextReset]_vars

(***************************************************************************)
(* Whole runs: load_and_run of an image that fills memory up to the reset  *)
(* vector or past it on a new CPU, then load_and_run of short images on    *)
(* the same CPU, whose runs go on into the bytes the earlier image left.   *)
(***************************************************************************)
MaxRuns == 2      \* calls of load_and_run on one CPU

\* INX up to the last byte of the array; INX up to 0xFFFA and LDA at 0xFFFB,
\* whose operand is the low byte of the reset vector.
LongImages == {Fill(MemLen - ProgramOrigin, OpINX),
               ArrCat(Fill(ResetVector - ProgramOrigin - 1, OpINX), Fill(1, OpLDA))}
ShortImages == {ArrOf(q) : q \in {<< >>, <<OpTAX, OpLDA>>, <<OpLDA, 5, OpBRK>>}}

NextRun ==
    \/ ops = 0 /\ \E program \in LongImages : LoadAndRun(program)
    \/ ops < MaxRuns /\ \E program \in ShortImages : LoadAndRun(program)
    \/ Step

SpecRun == Init /\ [][NextRun]_vars

(***************************************************************************)
(* The flag helpers as the three instructions call them: every status and  *)
(* every value, the value being the operand of LDA, register_a before TAX  *)
(* and register_x + 1 after INX.                                           *)
(***************************************************************************)
NextFlags ==
    \/ ops = 0 /\ \E v \in Byte, s \in Byte :
                     Execute(ArrOf(<<OpLDA, v>>), Poked.a, Poked.x, s)
    \/ ops = 0 /\ \E a \in Byte, s \in Byte :
                     Execute(ArrOf(<<OpTAX>>), a, Poked.x, s)
    \/ ops = 0 /\ \E x \in Byte, s \in Byte :
                     Execute(ArrOf(<<OpINX>>), Poked.a, x, s)
    \/ Step

SpecFlags == Init /\ [][NextFlags]_vars

(***************************************************************************)
(* Status over a CPU's life: the caller assigns the registers, resets, and *)
(* runs LDA #v, TAX, n times INX, BRK, in any order.                       *)
(***************************************************************************)
NextStatus ==
    \/ \E r \in PokeRegs, pc \in PokePCs : SetRegisters(r[1], r[2], r[3], pc)
    \/ ops < MaxRuns /\ \E v \in SomeBytes, n \in 0 .. MaxInx : LoadAndRun(Program(v, n))
    \/ Reset
    \/ Step

SpecStatus == Init /\ [][NextStatus]_vars

(***************************************************************************)
(* Properties.                                                             *)
(***************************************************************************)
ZeroFlag(s) == (s \div 2) % 2 = 1
NegativeFlag(s) == (s \div 128) % 2 = 1
\* the six status bits other than Zero (bit 1) and Negative (bit 7)
OtherFlags(s) == <<s % 2, (s \div 4) % 2, (s \div 8) % 2, (s \div 16) % 2,
                   (s \div 32) % 2, (s \div 64) % 2>>
\* the status in which exactly the Zero/Negative flags of v are set
FlagsOf(v) == (IF v = 0 THEN 2 ELSE 0) + (IF v >= 128 THEN 128 ELSE 0)

FirstPass == last.op = "step" /\ last.ret = 0
Executed(q) == last.image = ArrOf(q)

\* C1: for every byte v and every status before it, LDA #v leaves
\* register_a = v, Zero set iff v = 0, Negative set iff bit 7 of v is set,
\* and the other six status bits as they were.
C1_LdaImmediate ==
    (FirstPass /\ last.data = OpLDA) =>
        LET v == ArrAt(last.image, 1) IN
        /\ state = "Running"
        /\ register_a = v
        /\ ZeroFlag(status) <=> (v = 0)
        /\ NegativeFlag(status) <=> (v >= 128)
        /\ OtherFlags(status) = OtherFlags(pre.status)

C1_Witness ==
    /\ FirstPass /\ last.data = OpLDA
    /\ register_a = 128 /\ pre.register_a = Poked.a
    /\ pre.status = 127 /\ status = 253

\* C2: a program whose first byte is no supported opcode ends the run with
\* the not-yet-implemented panic: register_a, register_x and status are
\* those before the fetch, program_counter is the opcode's address plus one,
\* and no later byte is fetched.
C2_UnimplementedOpcode ==
    (last.image # << >> /\ ArrAt(last.image, 0) \notin Supported /\ state # "Idle") =>
        /\ state \in {"Running", "Panicked"}
        /\ state = "Running" => last.op = "execute" /\ fetched = 0
        /\ state = "Panicked" =>
              /\ FirstPass
              /\ panic = TodoPanic
              /\ fetched = 1
              /\ last.data = ArrAt(last.image, 0)
              /\ register_a = pre.register_a
              /\ register_x = pre.register_x
              /\ status = pre.status
              /\ last.addr = ProgramOrigin
              /\ program_counter = last.addr + 1

C2_Witness ==
    /\ state = "Panicked" /\ panic = TodoPanic
    /\ last.data = 255 /\ status = 125 /\ register_x = Poked.x /\ register_a = Poked.a

\* C3: after load(image), for every image with 0x8000 + len <= 0x10000,
\* memory[0x8000 + i] = image[i] for every i < len.
C3_ImageBytesInMemory ==
    (last.op = "load" /\ ProgramOrigin + ArrLen(last.image) <= U16) =>
        /\ state = "Idle"
        /\ \A i \in 0 .. (ArrLen(last.image) - 1) :
              ArrAt(memory, ProgramOrigin + i) = ArrAt(last.image, i)

\* C4: a load whose image ends past the address space (0x8000 + len >
\* 0x10000) fails before it writes: the call panics and every memory byte,
\* the reset vector included, is what it was before the call.
C4_LoadOverflowWritesNothing ==
    (last.op \in {"load", "load_and_run"} /\ ProgramOrigin + ArrLen(last.image) > U16) =>
        /\ state = "Panicked"
        /\ panic # ""
        /\ memory = pre.memory

C4_Witness ==
    /\ last.op = "load" /\ ProgramOrigin + ArrLen(last.image) > U16
    /\ ArrAt(last.image, 0) = 1
    /\ state = "Panicked"
    /\ pre.memory # ZeroMemory

\* C5: after a load that returned, memory[0xFFFC] = 0x00 and memory[0xFFFD]
\* = 0x80 whatever the CPU held before; the reset after it sets
\* program_counter to 0x8000, and the first byte the run after that fetches
\* is image[0].
C5_ResetVectorAfterLoad ==
    /\ (trail # "" /\ state # "Panicked") =>
          ArrAt(memory, 65532) = 0 /\ ArrAt(memory, 65533) = 128
    /\ (trail = "load,reset" \/ (trail = "load,reset,run" /\ fetched = 0)) =>
          program_counter = 32768
    /\ (trail = "load,reset,run" /\ FirstPass /\ last.image # << >>) =>
          last.addr = 32768 /\ last.data = ArrAt(last.image, 0)

C5_Witness ==
    /\ trail = "load,reset,run" /\ FirstPass
    /\ last.data = OpLDA
    /\ ops >= 2
    /\ pre.register_a = 0 /\ register_a # 0

\* C6: for every 16-bit x and every address 0x0000 <= addr <= 0xFFFE,
\* write16(addr, x) does not fail and the read16(addr) after it returns x.
C6_RoundTrip16 ==
    [][ /\ (last'.op = "mem_write_u16" /\ ops' = ops + 1 /\ last'.addr <= U16 - 2) =>
              state' = "Idle"
        /\ (last.op = "mem_write_u16" /\ last'.op = "mem_read_u16" /\ ops' = ops + 1
               /\ last'.addr = last.addr /\ last.addr <= U16 - 2) =>
              state' = "Idle" /\ last'.ret = last.data ]_vars

\* C7: for every 16-bit address, 0xFFFF included, write8(addr, b) does not
\* fail and the read8(addr) after it returns b.
C7_EveryAddressHoldsAByte ==
    [][ /\ (last'.op = "mem_write" /\ ops' = ops + 1 /\ last'.addr <= U16 - 1) =>
              state' = "Idle"
        /\ (last.op = "mem_write" /\ last'.op = "mem_read" /\ ops' = ops + 1
               /\ last'.addr = last.addr) =>
              state' = "Idle" /\ last'.ret = last.data ]_vars

\* C8: INX wraps modulo 256: register_x becomes (x + 1) mod 256, Zero is set
\* iff the result is 0 and Negative iff its bit 7 is set; 0xFF gives 0x00 with
\* Zero set and Negative clear, 0x7F gives 0x80 with Negative set and Zero clear.
C8_InxWraps ==
    (last.op = "step" /\ last.data = OpINX) =>
        /\ state = "Running"
        /\ register_x = (pre.register_x + 1) % 256
        /\ ZeroFlag(status) <=> (register_x = 0)
        /\ NegativeFlag(status) <=> (register_x >= 128)
        /\ pre.register_x = 255 =>
              register_x = 0 /\ ZeroFlag(status) /\ ~NegativeFlag(status)
        /\ pre.register_x = 127 =>
              register_x = 128 /\ NegativeFlag(status) /\ ~ZeroFlag(status)

C8_Witness ==
    /\ last.op = "step" /\ last.data = OpINX
    /\ pre.register_x = 255 /\ register_x = 0
    /\ pre.status = 130 /\ status = 2

\* C9: TAX is idempotent: after TAX run twice in a row register_x equals
\* register_a, and register_a, register_x and status are what they were
\* after the first TAX.
C9_TaxIdempotent ==
    (last.op = "step" /\ last.data = OpTAX /\ last.ret = 1
       /\ Executed(<<OpTAX, OpTAX, OpBRK>>)) =>
        /\ state = "Running"
        /\ register_x = register_a
        /\ register_a = pre.register_a
        /\ register_x = pre.register_x
        /\ status = pre.status

C9_Witness ==
    /\ last.op = "step" /\ last.data = OpTAX /\ last.ret = 1
    /\ Executed(<<OpTAX, OpTAX, OpBRK>>)
    /\ register_a = 200 /\ register_x = 200 /\ status = 253

Ended == state \in {"Halted", "Panicked"}
LoadedValue == ArrAt(last.image, 1)
LoadedCount == ArrLen(last.image) - 4

\* C10 as stated: for every byte v and every n >= 0, load_and_run of
\* LDA #v, TAX, n times INX, BRK on a new CPU halts with register_a = v,
\* register_x = (v + n) mod 256 and status = the Zero/Negative flags of
\* register_x.
C10_EndToEnd ==
    (last.op # "new" /\ Ended) =>
        /\ state = "Halted"
        /\ register_a = LoadedValue
        /\ register_x = (LoadedValue + LoadedCount) % 256
        /\ status = FlagsOf(register_x)

\* C10 as amended: the same for every n with 0 <= n <= 0x7FF9, the programs
\* whose BRK lies at or below 0xFFFC.
C10_EndToEndBelowVector ==
    (last.op # "new" /\ Ended /\ LoadedCount <= 32761) =>
        /\ state = "Halted"
        /\ register_a = LoadedValue
        /\ register_x = (LoadedValue + LoadedCount) % 256
        /\ status = FlagsOf(register_x)

C10_Witness ==
    /\ state = "Halted"
    /\ LoadedCount = 32761 /\ LoadedValue = 255
    /\ register_x = 248 /\ status = 128

\* a pass of run's loop that fetched its opcode (no panic at the fetch)
Fetched(op) == last.op = "step" /\ last.addr < MemLen /\ last.data = op

\* C11: the pass of run's loop that fetches 0x00 ends the run: run() has
\* returned, the 0x00 is the last byte fetched, program_counter is its
\* address plus one, and register_a, register_x and status are what they
\* were before the fetch.
C11_BreakEndsRun ==
    Fetched(OpBRK) =>
        /\ state = "Halted"
        /\ panic = ""
        /\ ~ENABLED Step
        /\ fetched = last.ret + 1
        /\ program_counter = last.addr + 1
        /\ register_a = pre.register_a
        /\ register_x = pre.register_x
        /\ status = pre.status

C11_Witness ==
    /\ Fetched(OpBRK) /\ state = "Halted"
    /\ last.addr = ProgramOrigin + 1
    /\ register_a = 130 /\ register_x = 1 /\ status = 255

\* C12: reset() returns from every register and memory state with
\* register_a, register_x and status 0, program_counter =
\* memory[0xFFFC] + 256 * memory[0xFFFD], and every memory byte as before.
C12_Reset ==
    last.op = "reset" =>
        /\ state = "Idle"
        /\ panic = ""
        /\ register_a = 0
        /\ register_x = 0
        /\ status = 0
        /\ program_counter = ArrAt(pre.memory, 65532) + 256 * ArrAt(pre.memory, 65533)
        /\ memory = pre.memory

C12_Witness ==
    /\ last.op = "reset" /\ state = "Idle"
    /\ pre.register_a = 130 /\ pre.register_x = 1 /\ pre.status = 255
    /\ pre.program_counter = MemLen
    /\ program_counter = 43981

AfterLoadReset == trail = "load,reset,run"

\* C13: in a run started by load and reset, before and after every pass of
\* the loop program_counter = 0x8000 + the number of bytes fetched so far;
\* every pass fetches its opcode at the first address not fetched before
\* and leaves program_counter greater than it was.
C13_CounterFollowsFetches ==
    AfterLoadReset =>
        /\ program_counter = 32768 + fetched
        /\ last.op = "step" =>
              /\ last.addr = pre.program_counter
              /\ last.addr = 32768 + last.ret
              /\ fetched > last.ret
              /\ program_counter > pre.program_counter

C13_Witness ==
    /\ AfterLoadReset /\ last.op = "step"
    /\ last.data = OpLDA /\ last.addr = ResetVector - 1
    /\ program_counter = ResetVector + 1
    /\ fetched = ResetVector + 1 - ProgramOrigin

\* the value an instruction passes to update_zero_and_negative_flags
FlagsValue ==
    CASE last.data = OpLDA -> ArrAt(last.image, 1)
      [] last.data = OpTAX -> pre.register_a
      [] last.data = OpINX -> (pre.register_x + 1) % 256

\* C14: for every status s before and every value v, after LDA, TAX or INX
\* has updated the flags from v the six status bits other than Zero and
\* Negative are those of s, Zero is set iff v = 0, and Negative is set iff
\* bit 7 of v is set.
C14_FlagsFrame ==
    (FirstPass /\ last.data \in {OpLDA, OpTAX, OpINX}) =>
        /\ state = "Running"
        /\ OtherFlags(status) = OtherFlags(pre.status)
        /\ ZeroFlag(status) <=> (FlagsValue = 0)
        /\ NegativeFlag(status) <=> ((FlagsValue \div 128) % 2 = 1)

C14_Witness ==
    /\ FirstPass /\ last.data = OpINX
    /\ pre.register_x = 255 /\ FlagsValue = 0
    /\ pre.status = 253 /\ status = 127

\* C15: every run started by load and reset, on a new or a reused CPU,
\* ends: while run() is in its loop program_counter is at most 0xFFFD,
\* every pass leaves program_counter greater than it was, and the pass
\* that leaves the loop is the return at a 0x00 opcode or the panic at an
\* opcode outside the table.  A run takes at most 0xFFFD - 0x8000 + 1
\* passes of the loop, which has no other exit and no suspension point.
C15_RunTerminates ==
    AfterLoadReset =>
        /\ state = "Running" => program_counter <= ResetVector + 1
        /\ last.op = "step" => program_counter > pre.program_counter
        /\ state = "Halted" \/ state = "Running"
               \/ (state = "Panicked" /\ panic = TodoPanic)

C15_Witness ==
    /\ AfterLoadReset /\ state = "Halted" /\ ops = 2
    /\ last.image = << >>
    /\ fetched = ResetVector + 1 - ProgramOrigin

\* C16: in a run started by load and reset every read of run() is inside
\* the array (the opcode's, and the operand's of LDA), program_counter is
\* within 0x8000 .. 0xFFFE in every state, and the run is left by the
\* return at 0x00 or the not-yet-implemented panic only, never by an index
\* out of bounds or an overflow of program_counter.
C16_RunStaysInMemory ==
    AfterLoadReset =>
        /\ program_counter \in 32768 .. 65534
        /\ panic \in {"", TodoPanic}
        /\ last.op = "step" =>
              /\ last.addr < ArrLen(memory)
              /\ last.data = OpLDA => last.addr + 1 < ArrLen(memory)
              /\ fetched > last.ret

C16_Witness ==
    /\ AfterLoadReset /\ last.op = "step"
    /\ state = "Panicked" /\ panic = TodoPanic
    /\ last.addr = ResetVector + 1 /\ last.data = 128
    /\ program_counter = MemLen - 1

\* the registers a run leaves
Registers(cpu) ==
    <<cpu.register_a, cpu.register_x, cpu.status, cpu.program_counter>>

\* C17: when load_and_run(image) has ended on a CPU that ran another image
\* before, the way it ended (return or panic) and register_a, register_x,
\* status and program_counter are those load_and_run(image) leaves on a
\* new CPU.
C17_EarlierRunsHaveNoInfluence ==
    (Ended /\ ops > 1 /\ last.image \in ShortImages) =>
        LET onNew == load_and_run(new, last.image) IN
        /\ (state = "Halted") <=> (onNew.ctl = "return")
        /\ panic = onNew.panic
        /\ Registers(Self) = Registers(onNew.cpu)

\* C18: after reset(), and in every state of a run started by load and
\* reset, status is 0x00, 0x02 or 0x80.
C18_StatusValues ==
    (last.op = "reset" \/ AfterLoadReset) => status \in {0, 2, 128}

C18_Witness ==
    /\ AfterLoadReset /\ last.op = "step" /\ last.data = OpINX
    /\ pre.status = 128 /\ status = 2
    /\ pre.register_a = 255 /\ ops = 2

\* C19: no pass of run's loop writes memory, however the pass ends (next
\* pass, return, or panic): every memory byte is what it was before the
\* pass, so memory after run() is memory before run().
C19_RunWritesNoMemory ==
    [][state = "Running" => memory' = memory]_vars

C19_Witness ==
    /\ last.op = "step" /\ last.data = OpINX
    /\ register_x # pre.register_x /\ status # pre.status
    /\ memory = pre.memory /\ memory # ZeroMemory

====
